---- MODULE Spec2Model ----
(***************************************************************************)
(* The universal-domain-adaptation driver of                               *)
(* examples/domain_adaptation/universal_domain_adaptation/cmu.py:          *)
(* main() as a state machine over its stages (pretrain,                    *)
(* calc_source_class_weight, train, train_ens_classifier, validate, the    *)
(* checkpoint files), and validate() / calc_source_class_weight() as       *)
(* operators over the lists their loader loops collect.                    *)
(*                                                                         *)
(* Numbers.  A float is a fraction [n, d]: d > 0 is the finite value n/d   *)
(* in lowest terms, d = 0 is what IEEE division by zero leaves: n = 0 is   *)
(* NaN, n = 1 is +inf, n = -1 is -inf.  The running score bounds of        *)
(* train() are scaled integers [m, e] of value m / (ScoreDen * 100^e), so  *)
(* that bound*0.01 + x*0.99 is exact.                                      *)
(***************************************************************************)
EXTENDS Integers, Sequences, FiniteSets, TLC

\* ------------------------------------------------------------ bounds
MaxEpochsPretrain == 1
MaxEpochs == 2
MaxIters == 2
MaxFeeds == 3

\* ------------------------------------------------- program constants
NumHeads == 5
num_classes == 3
num_common_classes == 1
batch_size == 2
\* labels of the target validation set: one common-class sample and two
\* private-class samples (labels >= num_classes)
val_labels == <<0, num_classes, num_classes + 1>>

Heads == 0 .. (NumHeads - 1)
Classes == 0 .. (num_classes - 1)
ValSamples == DOMAIN val_labels
BatchSamples == 1 .. batch_size

\* ------------------------------------------------------- float values
Abs(x) == IF x < 0 THEN -x ELSE x
Sign(x) == IF x > 0 THEN 1 ELSE IF x < 0 THEN -1 ELSE 0

RECURSIVE GCD(_, _)
GCD(a, b) == IF b = 0 THEN a ELSE GCD(b, a % b)

Frac(n, d) ==
    IF d = 0 THEN [n |-> Sign(n), d |-> 0]
    ELSE LET g == GCD(Abs(n), Abs(d))
         IN  [n |-> Sign(d) * (n \div g), d |-> Sign(d) * (d \div g)]

NaN == [n |-> 0, d |-> 0]
IsFinite(x) == x.d # 0
IsNaN(x) == x.d = 0 /\ x.n = 0
FInt(k) == [n |-> k, d |-> 1]

\* arithmetic of the evaluation passes; the only non-finite value that
\* arises there is NaN, which every operation propagates
FAdd(x, y) == IF IsFinite(x) /\ IsFinite(y) THEN Frac(x.n * y.d + y.n * x.d, x.d * y.d) ELSE NaN
FSub(x, y) == IF IsFinite(x) /\ IsFinite(y) THEN Frac(x.n * y.d - y.n * x.d, x.d * y.d) ELSE NaN
FMul(x, y) == IF IsFinite(x) /\ IsFinite(y) THEN Frac(x.n * y.n, x.d * y.d) ELSE NaN
\* tensor division: a zero divisor gives inf or NaN, never an exception
FDiv(x, y) == IF IsFinite(x) /\ IsFinite(y) THEN Frac(x.n * y.d, x.d * y.n) ELSE NaN
\* comparisons: false as soon as one side is NaN
FLt(x, y) == IsFinite(x) /\ IsFinite(y) /\ x.n * y.d < y.n * x.d
FLe(x, y) == IsFinite(x) /\ IsFinite(y) /\ x.n * y.d <= y.n * x.d
FGt(x, y) == FLt(y, x)
FGe(x, y) == FLe(y, x)

RECURSIVE FSum(_, _)
FSum(f, S) == IF S = {} THEN FInt(0)
              ELSE LET s == CHOOSE s \in S : TRUE IN FAdd(f[s], FSum(f, S \ {s}))

Range(f) == {f[k] : k \in DOMAIN f}

\* ------------------------------------------- tllib.alignment.cmu.norm
\* static min-max normalisation of one pass: (x - min) / (max - min), the
\* all-equal pass giving the constant 1/2; a NaN entry makes min and max NaN
NormGuard == Frac(1, 2)

norm(x) ==
    IF \E k \in DOMAIN x : ~IsFinite(x[k]) THEN [k \in DOMAIN x |-> NaN]
    ELSE LET min_val == CHOOSE v \in Range(x) : \A u \in Range(x) : FLe(v, u)
             max_val == CHOOSE v \in Range(x) : \A u \in Range(x) : FLe(u, v)
         IN  IF max_val = min_val THEN [k \in DOMAIN x |-> NormGuard]
             ELSE [k \in DOMAIN x |-> FDiv(FSub(x[k], min_val), FSub(max_val, min_val))]

\* what get_marginal_confidence and get_entropy return for one sample, in
\* tenths: <<marginal confidence, entropy>>
EnsembleStats == {<<2, 8>>, <<5, 5>>, <<9, 1>>}
\* the same for the target batches of a whole run: an undecided sample and
\* a confident one
TargetStats == {<<5, 5>>, <<9, 1>>}
\* the same for the samples of an evaluation pass
PassStats == EnsembleStats \cup {<<9, 8>>}

\* all_score = (norm(marginal confidence) + 1 - norm(entropy)) / 2
CombinedScore(stats) ==
    LET all_marginal_confidence == norm([s \in DOMAIN stats |-> Frac(stats[s][1], 10)])
        all_entropy == norm([s \in DOMAIN stats |-> Frac(stats[s][2], 10)])
    IN  [s \in DOMAIN stats |->
            FDiv(FSub(FAdd(all_marginal_confidence[s], FInt(1)), all_entropy[s]), FInt(2))]

\* ---------------------------------------------------------- validate
unknown_class == num_classes

\* the overwrite with <= for <
ThresholdPredictionsLe(prediction, all_score, threshold) ==
    [s \in DOMAIN prediction |->
        IF FLe(all_score[s], threshold) THEN unknown_class ELSE prediction[s]]

\* all_predictions[all_score < args.threshold] = unknown_class
ThresholdPredictions(prediction, all_score, threshold) ==
    [s \in DOMAIN prediction |->
        IF FLt(all_score[s], threshold) THEN unknown_class ELSE prediction[s]]

\* all_labels[all_labels >= unknown_class] = unknown_class
RemapLabels(label) ==
    [s \in DOMAIN label |-> IF label[s] >= unknown_class THEN unknown_class ELSE label[s]]

\* ConfusionMatrix.update, then compute(): per-class accuracy is the
\* diagonal over the row sum (0/0 for a class without samples)
ConfmatAccs(all_labels, all_predictions) ==
    [c \in 0 .. num_classes |->
        Frac(Cardinality({s \in DOMAIN all_labels : all_labels[s] = c /\ all_predictions[s] = c}),
             Cardinality({s \in DOMAIN all_labels : all_labels[s] = c}))]

CommonClasses == 0 .. (num_common_classes - 1)
MeanAcc(accs) ==
    FMul(FDiv(FAdd(FSum(accs, CommonClasses), accs[num_classes]), FInt(num_common_classes + 1)),
         FInt(100))
Known(accs) == FMul(FDiv(FSum(accs, CommonClasses), FInt(num_common_classes)), FInt(100))
Unknown(accs) == FMul(accs[num_classes], FInt(100))

\* h_score = 2 * known * unknown / (known + unknown) on Python floats: a
\* zero divisor raises ZeroDivisionError
HScoreRaises(known, unknown) == FAdd(known, unknown) = FInt(0)
HScore(known, unknown) == FDiv(FMul(FMul(FInt(2), known), unknown), FAdd(known, unknown))

\* one pass of validate() over the lists its loader loop collected
validate(prediction, stats, label, threshold) ==
    LET all_score == CombinedScore(stats)
        all_predictions == ThresholdPredictions(prediction, all_score, threshold)
        all_labels == RemapLabels(label)
        accs == ConfmatAccs(all_labels, all_predictions)
        raised == HScoreRaises(Known(accs), Unknown(accs))
    IN  [all_score |-> all_score,
         all_predictions |-> all_predictions,
         all_labels |-> all_labels,
         raised |-> raised,
         mean_acc |-> MeanAcc(accs),
         h_score |-> IF raised THEN NaN ELSE HScore(Known(accs), Unknown(accs))]

\* ------------------------------------------ calc_source_class_weight
\* softmax outputs of the main classifier, in units of 1 / ProbDen: one
\* vector peaked on each class, and the uniform one
ProbDen == 2 * num_classes
Softmaxes == {[k \in Classes |-> IF k = c THEN num_classes + 1 ELSE 1] : c \in Classes}
             \cup {[k \in Classes |-> 2]}

\* the mean taken over every row, the mask left out
SelectedSamplesAll(all_score, src_threshold) == DOMAIN all_score

\* the mask all_score >= args.src_threshold
SelectedSamples(all_score, src_threshold) ==
    {s \in DOMAIN all_score : FGe(all_score[s], src_threshold)}

\* all_output[mask].mean(dim=0): the mean of no rows is 0/0
ColumnMean(all_output, selected) ==
    [c \in Classes |->
        FDiv(FSum([s \in selected |-> Frac(all_output[s][c], ProbDen)], selected),
             FInt(Cardinality(selected)))]

calc_source_class_weight(all_output, stats, src_threshold) ==
    norm(ColumnMean(all_output, SelectedSamples(CombinedScore(stats), src_threshold)))

\* (source_class_weight > args.cut).float()
CutMask(weight, cut) == [c \in DOMAIN weight |-> IF FGt(weight[c], cut) THEN 1 ELSE 0]

\* ------------------------------------- running score bounds of train()
ScoreDen == 2 * 10

RECURSIVE Pow100(_)
Pow100(e) == IF e = 0 THEN 1 ELSE 100 * Pow100(e - 1)

\* w_t = (marginal_confidence + 1 - entropy) / 2, in units of 1 / ScoreDen
RawScore(stat) == stat[1] + 10 - stat[2]

Max(S) == CHOOSE v \in S : \A u \in S : u <= v
Min(S) == CHOOSE v \in S : \A u \in S : v <= u

ZeroBound == [m |-> 0, e |-> 0]

\* the two coefficients exchanged: bound * 0.99 + x * 0.01
SmoothSwapped(bound, x) == [m |-> 99 * bound.m + x * Pow100(bound.e), e |-> bound.e + 1]

\* bound * 0.01 + x * 0.99
Smooth(bound, x) == [m |-> bound.m + 99 * x * Pow100(bound.e), e |-> bound.e + 1]

\* the two bounds are smoothed together, so they share their scale
BoundEq(a, b) == a.m * Pow100(b.e) = b.m * Pow100(a.e)

\* w_t = (w_t - target_score_lower) / (target_score_upper - target_score_lower)
TargetWeights(w_t, upper, lower) ==
    [s \in DOMAIN w_t |-> Frac(w_t[s] * Pow100(upper.e) - lower.m, upper.m - lower.m)]

\* --------------------------------------------------------------- state
VARIABLES
    args,                   \* epochs_pretrain, epochs, iters_per_epoch, src_threshold
    pc,                     \* where main() stands
    err,                    \* the exception that ended main(), or "none"
    epoch,                  \* loop variable of the two epoch loops of main()
    i,                      \* loop variable of the running stage function
    classifier_index,       \* loop variable of the head loop of main()
    classifier,             \* backbone and main head: number of updates
    domain_discri,          \* discriminator: number of updates
    ens_classifier,         \* per head: number of updates
    lr_scheduler_pretrain,  \* steps taken by each schedule
    lr_scheduler,
    ens_lr_scheduler,       \* the one LambdaLR that the list holds five times
    train_source_iter,      \* batches drawn from each iterator
    train_target_iter,
    ens_iters,
    target_score_upper,     \* the bounds main() owns
    target_score_lower,
    frame,                  \* the locals of the running train() call
    source_class_weight,
    acc, h_score, best_acc, best_h_score,
    checkpoints,            \* the four files of the log directory
    calc_calls,             \* history: calls of calc_source_class_weight
    weight_undefined,       \* history: the class weights came from a NaN mean
    produced,               \* history: the bounds the last train() iteration produced
    fed,                    \* history: batch maxima fed to the running train() call
    h_hist,                 \* history: H-scores validate() returned to the epoch loop
    probe                   \* one pass of a pure function: its inputs and result

vars == <<args, pc, err, epoch, i, classifier_index, classifier, domain_discri,
          ens_classifier, lr_scheduler_pretrain, lr_scheduler, ens_lr_scheduler,
          train_source_iter, train_target_iter, ens_iters, target_score_upper,
          target_score_lower, frame, source_class_weight, acc, h_score, best_acc,
          best_h_score, checkpoints, calc_calls, weight_undefined, produced, fed,
          h_hist, probe>>

\* argparse defaults of --threshold, --src-threshold, --cut, in tenths
DefaultThreshold == 7
DefaultSrcThreshold == 4
DefaultCut == 1
args_threshold == Frac(DefaultThreshold, 10)
args_cut == Frac(DefaultCut, 10)
\* the values of --src-threshold and --threshold a run is given
SrcThresholds == {Frac(DefaultSrcThreshold, 10), Frac(8, 10)}
Thresholds == {Frac(DefaultThreshold, 10), Frac(5, 10)}

NoFrame == [target_score_upper |-> ZeroBound, target_score_lower |-> ZeroBound, w_t |-> << >>]
NoProbe == [fn |-> "none", in |-> << >>, out |-> << >>]

FileNames == {"latest_classifier", "best_classifier", "latest_ens_classifier", "best_ens_classifier"}
\* a file of the log directory: absent, left by an earlier run, or written
\* by this run in the named epoch
File(origin, e, state_dict) == [origin |-> origin, epoch |-> e, state_dict |-> state_dict]
EnsFiles == {"latest_ens_classifier", "best_ens_classifier"}
PriorFile(f, origin) ==
    File(origin, -1, IF f \in EnsFiles THEN [h \in Heads |-> -1] ELSE -1)

\* everything main() has before its first loop, but for the arguments, the
\* log directory and the position
Fresh ==
    /\ err = "none"
    /\ epoch = 0
    /\ i = 0
    /\ classifier_index = 0
    /\ classifier = 0
    /\ domain_discri = 0
    /\ ens_classifier = [h \in Heads |-> 0]
    /\ lr_scheduler_pretrain = 0
    /\ lr_scheduler = 0
    /\ ens_lr_scheduler = 0
    /\ train_source_iter = 0
    /\ train_target_iter = 0
    /\ ens_iters = [h \in Heads |-> 0]
    /\ target_score_upper = ZeroBound
    /\ target_score_lower = ZeroBound
    /\ frame = NoFrame
    /\ source_class_weight = << >>
    /\ acc = FInt(0)
    /\ h_score = FInt(0)
    /\ best_acc = FInt(0)
    /\ best_h_score = FInt(0)
    /\ calc_calls = 0
    /\ weight_undefined = FALSE
    /\ produced = <<ZeroBound, ZeroBound>>
    /\ fed = << >>
    /\ h_hist = << >>

Init ==
    /\ args \in [epochs_pretrain : 0 .. MaxEpochsPretrain,
                  epochs : 0 .. MaxEpochs,
                  iters_per_epoch : 0 .. MaxIters,
                  src_threshold : SrcThresholds]
    /\ pc = "pretrain"
    /\ \E origin \in {"absent", "earlier_run"} :
           checkpoints = [f \in FileNames |-> PriorFile(f, origin)]
    /\ probe = NoProbe
    /\ Fresh

\* ------------------------------------------- who writes which parameters
\* optimizer_pretrain holds the classifier and all heads, and every head
\* has a loss of its own in the step
PretrainUpdatedHeads == Heads
\* the heads handed to optimizer as well, with gradients
TrainUpdatedHeadsAll == Heads
\* optimizer holds the classifier and the discriminator; the heads run
\* under no_grad in eval mode
TrainUpdatedHeads == {}
\* ens_optimizer holds the heads; the loss reaches head classifier_index
TrainEnsUpdatedHeads(index) == {index}
\* the features of train_ens_classifier are computed under no_grad, and
\* ens_optimizer holds no classifier parameter
TrainEnsUpdatesClassifier == FALSE

Step(ens, heads) == [h \in Heads |-> IF h \in heads THEN ens[h] + 1 ELSE ens[h]]

\* ------------------------------------------------------------ pretrain
\* the loop left one epoch early
PretrainLoopDoneEarly == epoch + 1 >= args.epochs_pretrain
\* for epoch in range(args.epochs_pretrain)
PretrainLoopDone == epoch >= args.epochs_pretrain

\* one iteration of pretrain(): a source batch for the classifier, one
\* batch of every ens_iter for its head, one optimizer and schedule step
PretrainIter ==
    /\ pc = "pretrain" /\ ~PretrainLoopDone /\ i < args.iters_per_epoch
    /\ train_source_iter' = train_source_iter + 1
    /\ ens_iters' = [h \in Heads |-> ens_iters[h] + 1]
    /\ classifier' = classifier + 1
    /\ ens_classifier' = Step(ens_classifier, PretrainUpdatedHeads)
    /\ lr_scheduler_pretrain' = lr_scheduler_pretrain + 1
    /\ i' = i + 1
    /\ UNCHANGED <<args, pc, err, epoch, classifier_index, domain_discri, lr_scheduler,
                   ens_lr_scheduler, train_target_iter, target_score_upper,
                   target_score_lower, frame, source_class_weight, acc, h_score,
                   best_acc, best_h_score, checkpoints, calc_calls, weight_undefined,
                   produced, fed, h_hist, probe>>

PretrainReturn ==
    /\ pc = "pretrain" /\ ~PretrainLoopDone /\ i = args.iters_per_epoch
    /\ epoch' = epoch + 1
    /\ i' = 0
    /\ UNCHANGED <<args, pc, err, classifier_index, classifier, domain_discri,
                   ens_classifier, lr_scheduler_pretrain, lr_scheduler, ens_lr_scheduler,
                   train_source_iter, train_target_iter, ens_iters, target_score_upper,
                   target_score_lower, frame, source_class_weight, acc, h_score, best_acc,
                   best_h_score, checkpoints, calc_calls, weight_undefined, produced,
                   fed, h_hist, probe>>

\* ------------------------------------ stage 2 set-up and class weights
\* what calc_source_class_weight returns over the passes the validation
\* loader can give it
ValLoaderWeights ==
    [src_threshold \in SrcThresholds |->
        {calc_source_class_weight(all_output, stats, src_threshold) :
            all_output \in [ValSamples -> Softmaxes], stats \in [ValSamples -> PassStats]}]

\* the optimizers and schedules of stage 2, the zero bounds, and the call
\* of calc_source_class_weight over the validation loader
CalcSourceClassWeight ==
    /\ pc = "pretrain" /\ PretrainLoopDone
    /\ lr_scheduler' = 0
    /\ ens_lr_scheduler' = 0
    /\ target_score_upper' = ZeroBound
    /\ target_score_lower' = ZeroBound
    /\ source_class_weight' \in ValLoaderWeights[args.src_threshold]
    /\ calc_calls' = calc_calls + 1
    /\ pc' = "cut"
    /\ UNCHANGED <<args, err, epoch, i, classifier_index, classifier, domain_discri,
                   ens_classifier, lr_scheduler_pretrain, train_source_iter,
                   train_target_iter, ens_iters, frame, acc, h_score, best_acc,
                   best_h_score, checkpoints, weight_undefined, produced, fed, h_hist,
                   probe>>

\* source_class_weight = (source_class_weight > args.cut).float(), then
\* best_acc = best_h_score = 0 and the epoch loop starts
CutThreshold ==
    /\ pc = "cut"
    /\ source_class_weight' = CutMask(source_class_weight, args_cut)
    /\ weight_undefined' = (\E c \in Classes : IsNaN(source_class_weight[c]))
    /\ best_acc' = FInt(0)
    /\ best_h_score' = FInt(0)
    /\ epoch' = 0
    /\ pc' = "epochs"
    /\ UNCHANGED <<args, err, i, classifier_index, classifier, domain_discri,
                   ens_classifier, lr_scheduler_pretrain, lr_scheduler, ens_lr_scheduler,
                   train_source_iter, train_target_iter, ens_iters, target_score_upper,
                   target_score_lower, frame, acc, h_score, checkpoints, calc_calls,
                   produced, fed, h_hist, probe>>

\* --------------------------------------------------------------- train
EpochLoopDone == epoch >= args.epochs

\* the call train(..., target_score_upper, target_score_lower, ...): the
\* parameters of the call start as the tensors main() holds
TrainCall ==
    /\ pc = "epochs" /\ ~EpochLoopDone
    /\ frame' = [target_score_upper |-> target_score_upper,
                 target_score_lower |-> target_score_lower,
                 w_t |-> << >>]
    /\ fed' = << >>
    /\ i' = 0
    /\ pc' = "train"
    /\ UNCHANGED <<args, err, epoch, classifier_index, classifier, domain_discri,
                   ens_classifier, lr_scheduler_pretrain, lr_scheduler, ens_lr_scheduler,
                   train_source_iter, train_target_iter, ens_iters, target_score_upper,
                   target_score_lower, source_class_weight, acc, h_score, best_acc,
                   best_h_score, checkpoints, calc_calls, weight_undefined, produced,
                   h_hist, probe>>

\* w_t.max() and w_t.min() exchanged
RunningUpdateCrossed(fr, stats) ==
    LET w_t == [s \in DOMAIN stats |-> RawScore(stats[s])]
        upper == Smooth(fr.target_score_upper, Min(Range(w_t)))
        lower == Smooth(fr.target_score_lower, Max(Range(w_t)))
    IN  [target_score_upper |-> upper,
         target_score_lower |-> lower,
         w_t |-> TargetWeights(w_t, upper, lower)]

\* the no_grad block of one iteration: the raw scores of the target batch,
\* the two assignments to the names target_score_upper and
\* target_score_lower of the call, and the weights w_t
RunningUpdate(fr, stats) ==
    LET w_t == [s \in DOMAIN stats |-> RawScore(stats[s])]
        upper == Smooth(fr.target_score_upper, Max(Range(w_t)))
        lower == Smooth(fr.target_score_lower, Min(Range(w_t)))
    IN  [target_score_upper |-> upper,
         target_score_lower |-> lower,
         w_t |-> TargetWeights(w_t, upper, lower)]

BatchMax(stats) == Max({RawScore(stats[s]) : s \in DOMAIN stats})

TrainIter ==
    /\ pc = "train" /\ i < args.iters_per_epoch
    /\ \E stats \in [BatchSamples -> TargetStats] :
           /\ frame' = RunningUpdate(frame, stats)
           /\ fed' = Append(fed, BatchMax(stats))
    /\ produced' = <<frame'.target_score_upper, frame'.target_score_lower>>
    /\ train_source_iter' = train_source_iter + 1
    /\ train_target_iter' = train_target_iter + 1
    /\ classifier' = classifier + 1
    /\ domain_discri' = domain_discri + 1
    /\ ens_classifier' = Step(ens_classifier, TrainUpdatedHeads)
    /\ lr_scheduler' = lr_scheduler + 1
    /\ i' = i + 1
    /\ UNCHANGED <<args, pc, err, epoch, classifier_index, lr_scheduler_pretrain,
                   ens_lr_scheduler, ens_iters, target_score_upper, target_score_lower,
                   source_class_weight, acc, h_score, best_acc, best_h_score,
                   checkpoints, calc_calls, weight_undefined, h_hist, probe>>

\* train() returns nothing: its locals go, main() enters the head loop
TrainReturn ==
    /\ pc = "train" /\ i = args.iters_per_epoch
    /\ frame' = NoFrame
    /\ fed' = << >>
    /\ classifier_index' = 0
    /\ i' = 0
    /\ pc' = "train_ens"
    /\ UNCHANGED <<args, err, epoch, classifier, domain_discri, ens_classifier,
                   lr_scheduler_pretrain, lr_scheduler, ens_lr_scheduler,
                   train_source_iter, train_target_iter, ens_iters, target_score_upper,
                   target_score_lower, source_class_weight, acc, h_score, best_acc,
                   best_h_score, checkpoints, calc_calls, weight_undefined, produced,
                   h_hist, probe>>

\* ------------------------------------------------ train_ens_classifier
\* ens_lr_scheduler[index]: the list repeats one LambdaLR five times, so
\* every index reads the position of that one schedule
ens_lr_scheduler_at(index) == ens_lr_scheduler

EnsIters == args.iters_per_epoch \div 2

TrainEnsIter ==
    /\ pc = "train_ens" /\ classifier_index < NumHeads /\ i < EnsIters
    /\ ens_iters' = [ens_iters EXCEPT ![classifier_index] = @ + 1]
    /\ ens_classifier' = Step(ens_classifier, TrainEnsUpdatedHeads(classifier_index))
    /\ classifier' = IF TrainEnsUpdatesClassifier THEN classifier + 1 ELSE classifier
    /\ ens_lr_scheduler' = ens_lr_scheduler + 1
    /\ i' = i + 1
    /\ UNCHANGED <<args, pc, err, epoch, classifier_index, domain_discri,
                   lr_scheduler_pretrain, lr_scheduler, train_source_iter,
                   train_target_iter, target_score_upper, target_score_lower, frame,
                   source_class_weight, acc, h_score, best_acc, best_h_score,
                   checkpoints, calc_calls, weight_undefined, produced, fed, h_hist,
                   probe>>

TrainEnsReturn ==
    /\ pc = "train_ens" /\ classifier_index < NumHeads /\ i = EnsIters
    /\ classifier_index' = classifier_index + 1
    /\ i' = 0
    /\ UNCHANGED <<args, pc, err, epoch, classifier, domain_discri, ens_classifier,
                   lr_scheduler_pretrain, lr_scheduler, ens_lr_scheduler,
                   train_source_iter, train_target_iter, ens_iters, target_score_upper,
                   target_score_lower, frame, source_class_weight, acc, h_score,
                   best_acc, best_h_score, checkpoints, calc_calls, weight_undefined,
                   produced, fed, h_hist, probe>>

\* ------------------------------------- validation and the checkpoints
\* what validate() does over the passes the validation loader can give it:
\* it raises, or returns (mean_acc, h_score)
ValLoaderResults ==
    {LET r == validate(prediction, stats, val_labels, args_threshold)
     IN  [raised |-> r.raised, mean_acc |-> r.mean_acc, h_score |-> r.h_score] :
        prediction \in [ValSamples -> Classes], stats \in [ValSamples -> PassStats]}

\* acc, h_score = validate(val_loader, ...) after the head loop
Validate ==
    /\ pc = "train_ens" /\ classifier_index = NumHeads
    /\ \E r \in ValLoaderResults :
               IF r.raised
               THEN /\ pc' = "raised"
                    /\ err' = "ZeroDivisionError"
                    /\ UNCHANGED <<acc, h_score, h_hist>>
               ELSE /\ pc' = "checkpoint"
                    /\ acc' = r.mean_acc
                    /\ h_score' = r.h_score
                    /\ h_hist' = Append(h_hist, r.h_score)
                    /\ UNCHANGED err
    /\ UNCHANGED <<args, epoch, i, classifier_index, classifier, domain_discri,
                   ens_classifier, lr_scheduler_pretrain, lr_scheduler, ens_lr_scheduler,
                   train_source_iter, train_target_iter, ens_iters, target_score_upper,
                   target_score_lower, frame, source_class_weight, best_acc,
                   best_h_score, checkpoints, calc_calls, weight_undefined, produced,
                   fed, probe>>

\* the copy taken on >= as well
BetterOrEqualHScore == FGe(h_score, best_h_score)
\* if h_score > best_h_score
BetterHScore == FGt(h_score, best_h_score)

\* torch.save of both state dicts, best_acc = max(acc, best_acc), and on a
\* strictly better H-score the copy of both latest files to the best ones

SaveCheckpoint ==
    /\ pc = "checkpoint"
    /\ LET latest == File("this_run", epoch, classifier)
           latest_ens == File("this_run", epoch, ens_classifier)
       IN  checkpoints' =
             [checkpoints EXCEPT
                !["latest_classifier"] = latest,
                !["latest_ens_classifier"] = latest_ens,
                !["best_classifier"] = IF BetterHScore THEN latest ELSE @,
                !["best_ens_classifier"] = IF BetterHScore THEN latest_ens ELSE @]
    /\ best_acc' = IF FGt(best_acc, acc) THEN best_acc ELSE acc
    /\ best_h_score' = IF BetterHScore THEN h_score ELSE best_h_score
    /\ epoch' = epoch + 1
    /\ pc' = "epochs"
    /\ UNCHANGED <<args, err, i, classifier_index, classifier, domain_discri,
                   ens_classifier, lr_scheduler_pretrain, lr_scheduler, ens_lr_scheduler,
                   train_source_iter, train_target_iter, ens_iters, target_score_upper,
                   target_score_lower, frame, source_class_weight, acc, h_score,
                   calc_calls, weight_undefined, produced, fed, h_hist, probe>>

\* after the epoch loop: load_state_dict(torch.load(best_*)); a missing
\* file raises FileNotFoundError
LoadBest ==
    /\ pc = "epochs" /\ EpochLoopDone
    /\ IF checkpoints["best_classifier"].origin = "absent"
          \/ checkpoints["best_ens_classifier"].origin = "absent"
       THEN /\ pc' = "raised"
            /\ err' = "FileNotFoundError"
            /\ UNCHANGED <<classifier, ens_classifier>>
       ELSE /\ pc' = "test"
            /\ classifier' = checkpoints["best_classifier"].state_dict
            /\ ens_classifier' = checkpoints["best_ens_classifier"].state_dict
            /\ UNCHANGED err
    /\ UNCHANGED <<args, epoch, i, classifier_index, domain_discri,
                   lr_scheduler_pretrain, lr_scheduler, ens_lr_scheduler,
                   train_source_iter, train_target_iter, ens_iters, target_score_upper,
                   target_score_lower, frame, source_class_weight, acc, h_score,
                   best_acc, best_h_score, checkpoints, calc_calls, weight_undefined,
                   produced, fed, h_hist, probe>>

\* test_acc, test_h_score = validate(test_loader, ...); the test set is the
\* validation set for every dataset but DomainNet
TestValidate ==
    /\ pc = "test"
    /\ \E r \in ValLoaderResults :
               IF r.raised
               THEN pc' = "raised" /\ err' = "ZeroDivisionError"
               ELSE pc' = "done" /\ UNCHANGED err
    /\ UNCHANGED <<args, epoch, i, classifier_index, classifier, domain_discri,
                   ens_classifier, lr_scheduler_pretrain, lr_scheduler, ens_lr_scheduler,
                   train_source_iter, train_target_iter, ens_iters, target_score_upper,
                   target_score_lower, frame, source_class_weight, acc, h_score,
                   best_acc, best_h_score, checkpoints, calc_calls, weight_undefined,
                   produced, fed, h_hist, probe>>

Next ==
    \/ PretrainIter
    \/ PretrainReturn
    \/ CalcSourceClassWeight
    \/ CutThreshold
    \/ TrainCall
    \/ TrainIter
    \/ TrainReturn
    \/ TrainEnsIter
    \/ TrainEnsReturn
    \/ Validate
    \/ SaveCheckpoint
    \/ LoadBest
    \/ TestValidate

Spec == Init /\ [][Next]_vars

\* main() is one sequential program: while a statement is left to run, it runs
FairSpec == Spec /\ WF_vars(Next)

\* ----------------------------------------- single passes of the pure parts
\* One call of validate(), of calc_source_class_weight() or of the no_grad
\* block of train() on inputs of its own: probe holds what the call was
\* given and what it computed.
NoArgs == [epochs_pretrain |-> 0, epochs |-> 0, iters_per_epoch |-> 0,
           src_threshold |-> Frac(DefaultSrcThreshold, 10)]

Parked ==
    /\ args = NoArgs
    /\ checkpoints = [f \in FileNames |-> PriorFile(f, "absent")]
    /\ Fresh

rest == <<args, err, epoch, i, classifier_index, classifier, domain_discri,
          ens_classifier, lr_scheduler_pretrain, lr_scheduler, ens_lr_scheduler,
          train_source_iter, train_target_iter, ens_iters, target_score_upper,
          target_score_lower, source_class_weight, acc, h_score, best_acc,
          best_h_score, checkpoints, calc_calls, weight_undefined, produced, h_hist>>

\* labels a target set can carry: a common class, or a private class
TargetLabels == CommonClasses \cup {num_classes, num_classes + 1}

InitValidate ==
    /\ Parked
    /\ pc = "probe"
    /\ probe \in [fn : {"validate"},
                   in : [prediction : [ValSamples -> Classes],
                         stats : [ValSamples -> PassStats],
                         label : [ValSamples -> TargetLabels],
                         threshold : Thresholds],
                   out : {<< >>}]

ProbeValidate ==
    /\ pc = "probe" /\ probe.fn = "validate"
    /\ probe' = [probe EXCEPT !.out = validate(probe.in.prediction, probe.in.stats,
                                               probe.in.label, probe.in.threshold)]
    /\ pc' = "probed"
    /\ UNCHANGED <<rest, frame, fed>>

SpecValidate == InitValidate /\ [][ProbeValidate]_vars

InitWeight ==
    /\ Parked
    /\ pc = "probe"
    /\ probe \in [fn : {"calc_source_class_weight"},
                   in : [all_output : [ValSamples -> Softmaxes],
                         stats : [ValSamples -> PassStats],
                         src_threshold : SrcThresholds],
                   out : {<< >>}]

ProbeWeight ==
    /\ pc = "probe" /\ probe.fn = "calc_source_class_weight"
    /\ probe' = [probe EXCEPT !.out =
                    [all_score |-> CombinedScore(probe.in.stats),
                     source_class_weight |->
                        calc_source_class_weight(probe.in.all_output, probe.in.stats,
                                                 probe.in.src_threshold)]]
    /\ pc' = "probed"
    /\ UNCHANGED <<rest, frame, fed>>

SpecWeight == InitWeight /\ [][ProbeWeight]_vars

\* the running bounds from (0, 0) over MaxFeeds target batches
InitRunning ==
    /\ Parked
    /\ pc = "feed"
    /\ probe = NoProbe

FeedBatch ==
    /\ pc = "feed" /\ Len(fed) < MaxFeeds
    /\ \E stats \in [BatchSamples -> EnsembleStats] :
           /\ frame' = RunningUpdate(frame, stats)
           /\ fed' = Append(fed, BatchMax(stats))
    /\ UNCHANGED <<rest, pc, probe>>

SpecRunning == InitRunning /\ [][FeedBatch]_vars

\* ================================================================ claims

\* ---------------------------------------------------------------- C1
PretrainTotal == args.epochs_pretrain * args.iters_per_epoch

\* C1: in a training run every pretrain() iteration is over before
\* calc_source_class_weight starts, calc_source_class_weight with the cut
\* applied has run exactly once before the first iteration of train() or
\* train_ens_classifier(), and neither of the two starts before that.
C1_StageOrder ==
    /\ calc_calls <= 1
    /\ lr_scheduler_pretrain <= PretrainTotal
    /\ (calc_calls > 0 => lr_scheduler_pretrain = PretrainTotal)
    /\ (pc \in {"pretrain", "cut"} => lr_scheduler = 0 /\ ens_lr_scheduler = 0)
    /\ (pc \in {"train", "train_ens"} \/ lr_scheduler > 0 \/ ens_lr_scheduler > 0
          => /\ calc_calls = 1
             /\ \A c \in Classes : source_class_weight[c] \in {0, 1})

C1_Witness ==
    /\ pc = "train_ens"
    /\ lr_scheduler_pretrain > 0
    /\ lr_scheduler > 0
    /\ ens_lr_scheduler > 0

\* ---------------------------------------------------------------- C2
\* C2: the bounds an epoch of train() starts from are the bounds the
\* previous epoch of train() ended with.
C2_BoundsPersist ==
    (pc = "train" /\ i = 0 /\ epoch >= 1)
        => /\ BoundEq(frame.target_score_upper, produced[1])
           /\ BoundEq(frame.target_score_lower, produced[2])

\* ---------------------------------------------------------------- C3
\* the value of a bound is the decimal with the given digits after the point
Decimal(bound, digits, places) ==
    /\ places = 2 * bound.e + 1
    /\ bound.m * 10 = ScoreDen * digits

\* batch maxima 0.5, 0.9, 0.2 in units of 1 / ScoreDen
C3_Maxima == <<10, 18, 4>>

\* C3: from an upper bound of zero, batch maxima of 0.5, then 0.9, then
\* 0.2 take the upper bound to 0.495, then 0.89595, then 0.2069595: each
\* step is 0.01 times the old bound plus 0.99 times the batch maximum.
C3_UpperSequence ==
    /\ (fed = SubSeq(C3_Maxima, 1, 1) => Decimal(frame.target_score_upper, 495, 3))
    /\ (fed = SubSeq(C3_Maxima, 1, 2) => Decimal(frame.target_score_upper, 89595, 5))
    /\ (fed = SubSeq(C3_Maxima, 1, 3) => Decimal(frame.target_score_upper, 2069595, 7))

C3_Witness ==
    /\ pc = "feed"
    /\ fed = C3_Maxima
    /\ frame.target_score_upper.m > 0

\* the sequence with 0.8905 for its second value and 0.2069.. for its third
C3_AsStated ==
    /\ (fed = SubSeq(C3_Maxima, 1, 1) => Decimal(frame.target_score_upper, 495, 3))
    /\ (fed = SubSeq(C3_Maxima, 1, 2) => Decimal(frame.target_score_upper, 89050, 5))
    /\ (fed = SubSeq(C3_Maxima, 1, 3) =>
            (frame.target_score_upper.m * 10) \div (ScoreDen * 1000) = 2069)

\* ---------------------------------------------------------------- C4
\* C4: validate() returns a result, with no division error, for every
\* pair of known and unknown accuracies, both zero included.
C4_ValidateReturns == ~(pc = "raised" /\ err = "ZeroDivisionError")

\* ---------------------------------------------------------------- C5
ScoreBelow(x, t) == x.d > 0 /\ t.d > 0 /\ x.n * t.d < t.n * x.d
ScoreAtLeast(x, t) == x.d > 0 /\ t.d > 0 /\ x.n * t.d >= t.n * x.d

\* C5: in validate() a sample whose combined score is below the threshold
\* is predicted as the unknown class, any other sample keeps the argmax of
\* the main classifier, and a label of num_classes or more is counted as
\* the unknown class while the other labels stay as they are.
C5_ThresholdAndRemap ==
    (pc = "probed" /\ probe.fn = "validate") =>
        \A s \in ValSamples :
            /\ ScoreBelow(probe.out.all_score[s], probe.in.threshold)
                  => probe.out.all_predictions[s] = num_classes
            /\ ScoreAtLeast(probe.out.all_score[s], probe.in.threshold)
                  => probe.out.all_predictions[s] = probe.in.prediction[s]
            /\ probe.in.label[s] >= num_classes => probe.out.all_labels[s] = num_classes
            /\ probe.in.label[s] < num_classes
                  => probe.out.all_labels[s] = probe.in.label[s]

C5_Witness ==
    /\ pc = "probed" /\ probe.fn = "validate"
    /\ \E s \in ValSamples :
          /\ ScoreBelow(probe.out.all_score[s], probe.in.threshold)
          /\ probe.in.prediction[s] = 0
          /\ probe.out.all_predictions[s] = num_classes
    /\ \E s \in ValSamples :
          /\ probe.out.all_score[s] = probe.in.threshold
          /\ probe.out.all_predictions[s] = 1
    /\ \E s \in ValSamples :
          /\ probe.in.label[s] > num_classes
          /\ probe.out.all_labels[s] = num_classes

\* ---------------------------------------------------------------- C6
\* C6: the weights w_t that train() computes are finite numbers also when
\* the upper and the lower bound are equal.
C6_WeightsFinite ==
    pc = "train" => \A s \in DOMAIN frame.w_t : IsFinite(frame.w_t[s])

\* ---------------------------------------------------------------- C7
RECURSIVE SumOver(_, _)
SumOver(f, S) ==
    IF S = {} THEN 0
    ELSE LET s == CHOOSE t \in S : TRUE IN f[s] + SumOver(f, S \ {s})

\* the holdout samples whose combined score is at least the threshold
C7_Qualifying ==
    {s \in ValSamples : ScoreAtLeast(probe.out.all_score[s], probe.in.src_threshold)}

\* the sum of column c over these samples, in units of 1 / ProbDen
C7_ColSum(c) == SumOver([s \in ValSamples |-> probe.in.all_output[s][c]], C7_Qualifying)

\* C7: the vector calc_source_class_weight returns is the min-max
\* normalisation of the per-class mean of the softmax outputs of exactly
\* the samples whose combined score is at least src_threshold: each entry
\* is (mean - smallest mean) / (largest mean - smallest mean), it is NaN
\* when no sample qualifies and 1/2 when all the means are equal.
C7_NormalisedMean ==
    (pc = "probed" /\ probe.fn = "calc_source_class_weight") =>
        LET w == probe.out.source_class_weight
            hi == Max({C7_ColSum(c) : c \in Classes})
            lo == Min({C7_ColSum(c) : c \in Classes})
        IN  IF C7_Qualifying = {} THEN \A c \in Classes : IsNaN(w[c])
            ELSE IF hi = lo THEN \A c \in Classes : w[c] = NormGuard
            ELSE \A c \in Classes :
                    /\ w[c].d > 0
                    /\ w[c].n * (hi - lo) = (C7_ColSum(c) - lo) * w[c].d

C7_Witness ==
    /\ pc = "probed" /\ probe.fn = "calc_source_class_weight"
    /\ Cardinality(C7_Qualifying) = 2
    /\ \E c \in Classes :
          /\ probe.out.source_class_weight[c] = FInt(0)
          /\ \E s \in ValSamples \ C7_Qualifying :
                probe.in.all_output[s][c] = num_classes + 1
    /\ \E c \in Classes : probe.out.source_class_weight[c] = FInt(1)

\* the returned vector is the per-class mean itself
C7_PlainMean ==
    (pc = "probed" /\ probe.fn = "calc_source_class_weight" /\ C7_Qualifying # {}) =>
        \A c \in Classes :
            LET w == probe.out.source_class_weight[c]
            IN  /\ w.d > 0
                /\ w.n * ProbDen * Cardinality(C7_Qualifying) = C7_ColSum(c) * w.d

\* ---------------------------------------------------------------- C8
\* C8: the adversarial stage is never entered with class weights that come
\* from the mean of an empty selection.
C8_WeightsDefined == pc \in {"train", "train_ens"} => ~weight_undefined

\* ---------------------------------------------------------------- C9
\* the H-score validate() has just returned beats 0 and every earlier one
C9_Improved ==
    /\ FGt(h_score, FInt(0))
    /\ \A k \in 1 .. (Len(h_hist) - 1) : FGt(h_score, h_hist[k])

C9_MaxSeen ==
    CHOOSE v \in {FInt(0)} \cup Range(h_hist) :
        \A u \in {FInt(0)} \cup Range(h_hist) : FLe(u, v)

C9_State ==
    /\ pc # "checkpoint" => best_h_score = C9_MaxSeen
    /\ (pc = "epochs" /\ epoch >= 1) =>
          /\ checkpoints["latest_classifier"] = File("this_run", epoch - 1, classifier)
          /\ checkpoints["latest_ens_classifier"] = File("this_run", epoch - 1, ens_classifier)
    /\ checkpoints["best_classifier"].origin = checkpoints["best_ens_classifier"].origin
    /\ checkpoints["best_classifier"].epoch = checkpoints["best_ens_classifier"].epoch

C9_Step ==
    pc = "checkpoint" =>
        IF C9_Improved
        THEN /\ checkpoints'["best_classifier"] = File("this_run", epoch, classifier)
             /\ checkpoints'["best_ens_classifier"] = File("this_run", epoch, ens_classifier)
        ELSE /\ checkpoints'["best_classifier"] = checkpoints["best_classifier"]
             /\ checkpoints'["best_ens_classifier"] = checkpoints["best_ens_classifier"]

\* C9: after every adversarial epoch the latest files of the classifier and
\* of the heads hold the current parameters; the best files are overwritten
\* with them exactly when the epoch's H-score is strictly above every
\* earlier one and above 0; best_h_score is the largest of 0 and the
\* H-scores seen so far.
C9_Snapshots == [](C9_State) /\ [][C9_Step]_vars

C9_Witness ==
    /\ pc = "epochs" /\ epoch = 2
    /\ checkpoints["best_classifier"] = File("this_run", 1, classifier)
    /\ checkpoints["latest_ens_classifier"].state_dict = ens_classifier
    /\ FGt(best_h_score, h_hist[1])
    /\ FGt(h_hist[1], FInt(0))

\* --------------------------------------------------------------- C10
C10_Step ==
    /\ pc = "train" => ens_classifier' = ens_classifier
    /\ pc = "train_ens" => classifier' = classifier
    /\ pc \notin {"pretrain", "cut"} => source_class_weight' = source_class_weight

\* C10: train() leaves the parameters of every head as they are,
\* train_ens_classifier() leaves the parameters of the classifier as they
\* are, and source_class_weight is not written again once the cut has been
\* applied.
C10_WriteOwnership == [][C10_Step]_vars

C10_Witness ==
    /\ pc = "epochs" /\ epoch >= 1
    /\ lr_scheduler > 0
    /\ \A h \in Heads : ens_iters[h] > 0
    /\ classifier > 0

\* --------------------------------------------------------------- C11
\* iterations of one head call: floor(iters_per_epoch / 2)
HalfIters == args.iters_per_epoch \div 2

\* draws from ens_iters[h] that the head calls of the running epoch have made
C11_DrawsThisEpoch(h) ==
    IF pc # "train_ens" THEN 0
    ELSE IF h < classifier_index THEN HalfIters
    ELSE IF h = classifier_index THEN i
    ELSE 0

\* epochs whose train() and five head calls are complete
C11_EpochsTrained == IF pc = "checkpoint" THEN epoch + 1 ELSE epoch

\* the order inside an epoch, read off the counters of the schedules, of the
\* iterators and of the validation results
C11_EpochOrder ==
    pc \in {"epochs", "train", "train_ens", "checkpoint", "test", "done"} =>
        /\ lr_scheduler =
              IF pc = "train" THEN epoch * args.iters_per_epoch + i
              ELSE IF pc = "train_ens" THEN (epoch + 1) * args.iters_per_epoch
              ELSE C11_EpochsTrained * args.iters_per_epoch
        /\ pc = "train" => i <= args.iters_per_epoch
        /\ pc = "train_ens" => classifier_index <= NumHeads /\ i <= HalfIters
        /\ \A h \in Heads :
              ens_iters[h] = PretrainTotal + C11_EpochsTrained * HalfIters
                                + C11_DrawsThisEpoch(h)
        /\ train_source_iter = PretrainTotal + lr_scheduler
        /\ train_target_iter = lr_scheduler
        /\ Len(h_hist) = C11_EpochsTrained
        /\ epoch >= 1 =>
              /\ checkpoints["latest_classifier"].epoch = epoch - 1
              /\ checkpoints["latest_ens_classifier"].epoch = epoch - 1
        /\ pc \in {"test", "done"} => epoch = args.epochs

\* the test evaluation is entered from the finished epoch loop only, and
\* nothing runs after it
C11_TestStep ==
    /\ (pc' = "test" /\ pc # "test") => (pc = "epochs" /\ epoch = args.epochs)
    /\ pc = "test" => pc' \in {"done", "raised"}
    /\ pc \in {"done", "raised"} => pc' = pc

\* the order alone, without the promise that the test evaluation runs
C11_Order == [](C11_EpochOrder) /\ [][C11_TestStep]_vars

\* C11: in every adversarial epoch all iters_per_epoch iterations of
\* train() come first, then the head calls 0..4 in this order, each once
\* with floor(iters_per_epoch / 2) iterations drawn from its own iterator,
\* then one validate() on the validation loader, then the checkpoint save;
\* and once the last epoch is over, one validate() on the test loader runs.
C11_OrderAndTest ==
    /\ C11_Order
    /\ ((pc = "epochs" /\ epoch = args.epochs) ~> (pc = "test"))

\* --------------------------------------------------------------- C12
\* C12: every head has a schedule of its own: between the epochs the
\* schedule passed for head h has been stepped once per iteration of the
\* calls for head h, epoch * floor(iters_per_epoch / 2) times, and a call
\* for one head leaves the schedule positions of the other heads alone.
C12_OwnSchedule ==
    /\ pc = "epochs" =>
          \A h \in Heads : ens_lr_scheduler_at(h) = epoch * HalfIters
    /\ pc = "train_ens" =>
          \A h \in Heads :
              ens_lr_scheduler_at(h) = epoch * HalfIters + C11_DrawsThisEpoch(h)

\* --------------------------------------------------------------- C13
\* C13: when main() stands at the test evaluation, the two best files it
\* has just loaded were written by an epoch of this run, and the
\* parameters in use are the ones those files hold.
C13_BestFromThisRun ==
    pc = "test" =>
        /\ checkpoints["best_classifier"].origin = "this_run"
        /\ checkpoints["best_ens_classifier"].origin = "this_run"
        /\ checkpoints["best_classifier"].epoch \in 0 .. (args.epochs - 1)
        /\ classifier = checkpoints["best_classifier"].state_dict
        /\ ens_classifier = checkpoints["best_ens_classifier"].state_dict

\* --------------------------------------------------------------- C14
\* C14: after every update of the running bounds in train(),
\* target_score_upper >= target_score_lower; when the two differ every
\* weight w_t is a finite number, but the weights are not confined to
\* [0, 1]: after the first update of a call, upper is 0.99 times the batch
\* maximum, so the weight of the top sample is above 1.
C14_BoundsOrdered ==
    pc = "train" =>
        LET upper == frame.target_score_upper
            lower == frame.target_score_lower
        IN  /\ upper.e = lower.e
            /\ upper.m >= lower.m
            /\ upper.m > lower.m =>
                  \A s \in DOMAIN frame.w_t : frame.w_t[s].d > 0
            /\ (i = 1 /\ upper.m > lower.m) =>
                  /\ upper.m = 99 * fed[1]
                  /\ \E s \in DOMAIN frame.w_t : frame.w_t[s].n > frame.w_t[s].d

\* a weight below 0: the lower bound still remembers a higher batch
C14_Witness ==
    /\ pc = "train" /\ i = 2
    /\ frame.target_score_upper.m > frame.target_score_lower.m
    /\ \E s \in DOMAIN frame.w_t : frame.w_t[s].d > 0 /\ frame.w_t[s].n < 0

\* the bounds are ordered and every weight lies in [0, 1]
C14_UnitInterval ==
    pc = "train" =>
        /\ frame.target_score_upper.m >= frame.target_score_lower.m
        /\ \A s \in DOMAIN frame.w_t :
              /\ frame.w_t[s].d > 0
              /\ 0 <= frame.w_t[s].n
              /\ frame.w_t[s].n <= frame.w_t[s].d
====
